---- MODULE Spec2Model ----
(***************************************************************************)
(* The assignment-portal backend (src/index.js): the token service         *)
(* (jwt.sign / jwt.verify with the process-wide secret), the verifyToken   *)
(* middleware, and the route handlers over the two collections              *)
(* "assignments" and "submitted".                                           *)
(*                                                                         *)
(* Time is Date.now() in milliseconds; jsonwebtoken works on whole seconds *)
(* (Math.floor(Date.now() / 1000)).  A document carries the fields a route *)
(* reads (difficulty; submittedBy, status); the other fields of a body     *)
(* (title, photo, marks, due, description; givenMark, feedback, gradedBy)  *)
(* are stored and returned the same way and are read by no route.          *)
(***************************************************************************)
EXTENDS Integers, Sequences, FiniteSets

(* running      the server process is alive (process.exit has not run)     *)
(* now          Date.now(), in milliseconds                                *)
(* secret       process.env.ACCESS_TOKEN_SECRET                            *)
(* kept         the token POST /jwt issued last, as a client keeps it      *)
(*              whatever happens to the cookie                             *)
(* issuedAt     Date.now() when that token was issued                      *)
(* jar          the "token" cookie of the browser                          *)
(* assignments  the "assignments" collection                               *)
(* submitted    the "submitted" collection                                 *)
(* last         the request in hand and what it has been answered          *)
VARIABLES running, now, secret, kept, issuedAt, jar, assignments, submitted, last

vars == <<running, now, secret, kept, issuedAt, jar, assignments, submitted, last>>

---------------------------------------------------------------------------
(* Bounds of the model *)

MaxAssignments == 1
MaxSubmissions == 1

(* expiresIn: "1h", in the seconds jsonwebtoken counts in *)
ExpiresIn == 3600

Emails == {"a@x.com", "b@x.com"}
Difficulties == {"easy", "hard"}
Statuses == {"pending", "graded", "resubmit"}

EnvSecret == "k_env"
OtherSecret == "k_other"

(* The instants Date.now() is observed at: around issuance and around the  *)
(* expiry of a token issued in the first second.                           *)
Instants == {0, 999, (ExpiresIn - 1) * 1000 + 999, ExpiresIn * 1000}

(* req.params.id: 0 stands for a string that is not 24 hex characters, a   *)
(* positive number for a well-formed id.                                    *)
MaxId == IF MaxAssignments > MaxSubmissions THEN MaxAssignments ELSE MaxSubmissions
ObjectIds == 1 .. MaxId
IdParams == 0 .. MaxId

---------------------------------------------------------------------------
(* Token service *)

NoToken == [email |-> "", iat |-> 0, exp |-> 0, sig |-> ""]
NoUser == ""

(* jwt.sign(payload, secret, {expiresIn: "1h"}): iat is the clock floored  *)
(* to seconds, exp is iat + 3600.                                           *)
Sign(email, key, t) ==
    [email |-> email, iat |-> t \div 1000, exp |-> (t \div 1000) + ExpiresIn, sig |-> key]

(* A token signed with another key, as a client can make up. *)
Forged == [email |-> "a@x.com", iat |-> 0, exp |-> 3 * ExpiresIn, sig |-> OtherSecret]

(* Verify with the expiry compared off by one: a token is still accepted   *)
(* in the second its exp names.                                            *)
VerifyLate(token, key, t) ==
    IF token.sig # key THEN "invalid signature"
    ELSE IF t \div 1000 > token.exp THEN "jwt expired"
    ELSE "ok"

(* jwt.verify(token, secret, cb): the error it calls back with, or "ok". *)
Verify(token, key, t) ==
    IF token.sig # key THEN "invalid signature"
    ELSE IF t \div 1000 >= token.exp THEN "jwt expired"
    ELSE "ok"

(* verifyToken without the check for a missing cookie: next() is called. *)
verifyTokenSkipsMissing(token, key, t) ==
    IF token = NoToken
    THEN [admitted |-> TRUE, sends |-> <<>>, exits |-> FALSE, user |-> NoUser]
    ELSE IF Verify(token, key, t) # "ok"
    THEN [admitted |-> FALSE, sends |-> <<401>>, exits |-> TRUE, user |-> NoUser]
    ELSE [admitted |-> TRUE, sends |-> <<>>, exits |-> FALSE, user |-> token.email]

(* verifyToken: what the middleware does with the cookie. *)
verifyToken(token, key, t) ==
    IF token = NoToken
    THEN [admitted |-> FALSE, sends |-> <<401>>, exits |-> TRUE, user |-> NoUser]
    ELSE IF Verify(token, key, t) # "ok"
    THEN [admitted |-> FALSE, sends |-> <<401>>, exits |-> TRUE, user |-> NoUser]
    ELSE [admitted |-> TRUE, sends |-> <<>>, exits |-> FALSE, user |-> token.email]

---------------------------------------------------------------------------
(* Document store: a collection is the sequence of its documents in store  *)
(* order; ids are unique within a collection.                              *)

Ids(coll) == {coll[i].id : i \in 1 .. Len(coll)}

(* The id insertOne gives a document: one that no document of the          *)
(* collection has.                                                         *)
FreshId(coll) == CHOOSE i \in ObjectIds \ Ids(coll) : \A j \in ObjectIds \ Ids(coll) : i <= j

Room(coll, max) == Len(coll) < max

(* cursor.skip(n) *)
Skip(coll, n) == IF n >= Len(coll) THEN <<>> ELSE SubSeq(coll, n + 1, Len(coll))

(* cursor.limit(n): a limit of 0 is no limit. *)
Limit(coll, n) == IF n = 0 \/ n >= Len(coll) THEN coll ELSE SubSeq(coll, 1, n)

(* find({difficulty: d}) *)
FindByDifficulty(coll, d) == SelectSeq(coll, LAMBDA doc : doc.difficulty = d)

(* find({status: "pending"}) *)
FindPending(coll) == SelectSeq(coll, LAMBDA doc : doc.status = "pending")

(* find() with the filter left out. *)
FindBySubmitterUnfiltered(coll, email) == coll

(* find({submittedBy: email}) *)
FindBySubmitter(coll, email) == SelectSeq(coll, LAMBDA doc : doc.submittedBy = email)

(* findOne({_id: id}): the matching documents, at most one. *)
FindById(coll, id) == SelectSeq(coll, LAMBDA doc : doc.id = id)

(* deleteOne with a filter that matches nothing. *)
DeleteOneNoMatch(coll, id) == coll

(* deleteOne({_id: id}) *)
DeleteOne(coll, id) == SelectSeq(coll, LAMBDA doc : doc.id # id)

(* updateOne({_id: id}, {$set: {difficulty, ...}}, {upsert: true}) *)
UpsertAssignment(coll, id, body) ==
    IF id \in Ids(coll)
    THEN [i \in 1 .. Len(coll) |->
            IF coll[i].id = id THEN [coll[i] EXCEPT !.difficulty = body.difficulty] ELSE coll[i]]
    ELSE Append(coll, [id |-> id, difficulty |-> body.difficulty])

(* updateOne({_id: id}, {$set: {givenMark, feedback, gradedBy, status}}) *)
MarkSubmission(coll, id, data) ==
    [i \in 1 .. Len(coll) |->
        IF coll[i].id = id THEN [coll[i] EXCEPT !.status = data.status] ELSE coll[i]]

---------------------------------------------------------------------------
(* Request handling *)

(* new ObjectId(req.params.id) throws on a string that is no ObjectId. *)
ObjectIdThrows(param) == param \notin ObjectIds

(* if (req.user.email !== req.query.email) res.status(403).send(...): the  *)
(* responses sent when the check is over.  Nothing returns after it.       *)
AuthorizeSelf(user, email) == IF user # email THEN <<403>> ELSE <<>>

(* An exception that leaves an async handler: the framework answers 500    *)
(* if nothing was sent yet (a framework that catches the rejected          *)
(* promise), or nothing more is sent and the runtime either goes on or     *)
(* ends the process on the unhandled rejection.                            *)
Uncaught(sent) ==
    {[sends |-> sent, running |-> r, delivered |-> FALSE] : r \in BOOLEAN}
    \cup {[sends |-> IF sent = <<>> THEN <<500>> ELSE sent, running |-> TRUE, delivered |-> FALSE]}

(* The handler's closing res.send(result): it throws when a response has   *)
(* already been sent.                                                      *)
FinalSend(sent) ==
    IF sent = <<>>
    THEN {[sends |-> <<200>>, running |-> TRUE, delivered |-> TRUE]}
    ELSE Uncaught(sent)

NoDocs == <<>>

(* The record of the request handled last and of what it was answered. *)
Log(route, cookie, user, email, id, entered, calls, o, docs, count) ==
    [route |-> route, cookie |-> cookie, user |-> user, email |-> email, id |-> id,
     entered |-> entered, calls |-> calls, sends |-> o.sends,
     docs |-> IF o.delivered THEN docs ELSE NoDocs,
     count |-> IF o.delivered THEN count ELSE 0]

NoRequest ==
    [route |-> "", cookie |-> NoToken, user |-> NoUser, email |-> "", id |-> 0,
     entered |-> FALSE, calls |-> 0, sends |-> <<>>, docs |-> NoDocs, count |-> 0]

(* The cookies a request can carry: none, the browser's cookie, the copy   *)
(* a client kept of the token issued last, or a token signed with another  *)
(* key.                                                                    *)
Cookies == {NoToken, Forged, jar, kept}

(* Requests are answered one at a time: last holds the request being       *)
(* answered until its response is written out.                             *)
Idle == last = NoRequest

(* verifyToken rejecting: 401, then process.exit(1).  The middleware reads *)
(* the cookie only: the query and the parameters of the request are never  *)
(* looked at.                                                              *)
Reject(route, cookie) ==
    /\ ~verifyToken(cookie, secret, now).admitted
    /\ running' = ~verifyToken(cookie, secret, now).exits
    /\ last' = Log(route, cookie, NoUser, "", 0, FALSE, 1,
                   [sends |-> verifyToken(cookie, secret, now).sends, delivered |-> FALSE],
                   NoDocs, 0)
    /\ UNCHANGED <<now, secret, kept, issuedAt, jar, assignments, submitted>>

Init ==
    /\ running = TRUE
    /\ now = 0
    /\ secret = EnvSecret
    /\ kept = NoToken
    /\ issuedAt = 0
    /\ jar = NoToken
    /\ assignments = <<>>
    /\ submitted = <<>>
    /\ last = NoRequest

(* Date.now() moves on. *)
Tick ==
    /\ running
    /\ Idle
    /\ \E t \in Instants : t > now /\ now' = t
    /\ UNCHANGED <<running, secret, kept, issuedAt, jar, assignments, submitted, last>>

(* POST /jwt *)
Jwt(email) ==
    /\ running
    /\ Idle
    /\ kept' = Sign(email, secret, now)
    /\ issuedAt' = now
    /\ jar' = Sign(email, secret, now)
    /\ last' = Log("/jwt", NoToken, NoUser, email, 0, TRUE, 1,
                   [sends |-> <<200>>, delivered |-> TRUE], NoDocs, 0)
    /\ UNCHANGED <<running, now, secret, assignments, submitted>>

(* A logout that revokes what was issued by changing the signing secret. *)
LogoutRevokes ==
    /\ running
    /\ Idle
    /\ jar' = NoToken
    /\ secret' = OtherSecret
    /\ last' = Log("/logout", NoToken, NoUser, "", 0, TRUE, 1,
                   [sends |-> <<200>>, delivered |-> TRUE], NoDocs, 0)
    /\ UNCHANGED <<running, now, kept, issuedAt, assignments, submitted>>

(* GET /logout *)
Logout ==
    /\ running
    /\ Idle
    /\ jar' = NoToken
    /\ last' = Log("/logout", NoToken, NoUser, "", 0, TRUE, 1,
                   [sends |-> <<200>>, delivered |-> TRUE], NoDocs, 0)
    /\ UNCHANGED <<running, now, secret, kept, issuedAt, assignments, submitted>>

(* What a handler that verifyToken let through ends with: the closing      *)
(* res.send, or the exception thrown before it.                            *)
Answer(route, cookie, email, id, throws, docs, count) ==
    LET user == verifyToken(cookie, secret, now).user
        sent == AuthorizeSelf(user, email)
    IN  \E o \in (IF throws THEN Uncaught(sent) ELSE FinalSend(sent)) :
            /\ running' = o.running
            /\ last' = Log(route, cookie, user, email, id, TRUE,
                           Len(sent) + (IF throws THEN 0 ELSE 1), o, docs, count)

(* A route without verifyToken answers once. *)
Public(route, docs) ==
    /\ running
    /\ Idle
    /\ last' = Log(route, NoToken, NoUser, "", 0, TRUE, 1,
                   [sends |-> <<200>>, delivered |-> TRUE], docs, 0)
    /\ UNCHANGED <<running, now, secret, kept, issuedAt, jar, assignments, submitted>>

(* GET / *)
Root == Public("/", NoDocs)

(* POST /create *)
Create(cookie, email, body) ==
    /\ running
    /\ Idle
    /\ \/ Reject("/create", cookie)
       \/ /\ verifyToken(cookie, secret, now).admitted
          /\ Room(assignments, MaxAssignments)
          /\ assignments' = Append(assignments,
                               [id |-> FreshId(assignments), difficulty |-> body.difficulty])
          /\ Answer("/create", cookie, email, 0, FALSE, NoDocs, 1)
          /\ UNCHANGED <<now, secret, kept, issuedAt, jar, submitted>>

(* GET /assignments *)
Assignments == Public("/assignments", assignments)

(* GET /assignmentsbydifficulty *)
(* Paging that skips page documents instead of page * size. *)
PagedSkipsPage(coll, page, size, difficulty) ==
    Limit(Skip(IF difficulty # "" THEN FindByDifficulty(coll, difficulty) ELSE coll, page),
          size)

Paged(coll, page, size, difficulty) ==
    Limit(Skip(IF difficulty # "" THEN FindByDifficulty(coll, difficulty) ELSE coll,
               page * size),
          size)

AssignmentsByDifficulty(page, size, difficulty) ==
    Public("/assignmentsbydifficulty", Paged(assignments, page, size, difficulty))

(* GET /assignmentbydiff *)
AssignmentByDiff(difficulty) ==
    Public("/assignmentbydiff", FindByDifficulty(assignments, difficulty))

(* GET /assignment/:id *)
GetAssignment(cookie, email, id) ==
    /\ running
    /\ Idle
    /\ \/ Reject("/assignment/:id", cookie)
       \/ /\ verifyToken(cookie, secret, now).admitted
          /\ Answer("/assignment/:id", cookie, email, id, ObjectIdThrows(id),
                    FindById(assignments, id), Len(FindById(assignments, id)))
          /\ UNCHANGED <<now, secret, kept, issuedAt, jar, assignments, submitted>>

(* PUT /update/:id *)
Update(cookie, email, id, body) ==
    /\ running
    /\ Idle
    /\ \/ Reject("/update/:id", cookie)
       \/ /\ verifyToken(cookie, secret, now).admitted
          /\ ObjectIdThrows(id) \/ id \in Ids(assignments) \/ Room(assignments, MaxAssignments)
          /\ assignments' = IF ObjectIdThrows(id) THEN assignments
                            ELSE UpsertAssignment(assignments, id, body)
          /\ Answer("/update/:id", cookie, email, id, ObjectIdThrows(id), NoDocs,
                    IF id \in Ids(assignments) THEN 1 ELSE 0)
          /\ UNCHANGED <<now, secret, kept, issuedAt, jar, submitted>>

(* DELETE /delete/:id *)
Delete(cookie, email, id) ==
    /\ running
    /\ Idle
    /\ \/ Reject("/delete/:id", cookie)
       \/ /\ verifyToken(cookie, secret, now).admitted
          /\ assignments' = IF ObjectIdThrows(id) THEN assignments
                            ELSE DeleteOne(assignments, id)
          /\ Answer("/delete/:id", cookie, email, id, ObjectIdThrows(id), NoDocs,
                    Len(assignments) - Len(assignments'))
          /\ UNCHANGED <<now, secret, kept, issuedAt, jar, submitted>>

(* POST /createSubmitted *)
CreateSubmitted(cookie, email, body) ==
    /\ running
    /\ Idle
    /\ \/ Reject("/createSubmitted", cookie)
       \/ /\ verifyToken(cookie, secret, now).admitted
          /\ Room(submitted, MaxSubmissions)
          /\ submitted' = Append(submitted,
                             [id |-> FreshId(submitted), submittedBy |-> body.submittedBy,
                              status |-> body.status])
          /\ Answer("/createSubmitted", cookie, email, 0, FALSE, NoDocs, 1)
          /\ UNCHANGED <<now, secret, kept, issuedAt, jar, assignments>>

(* GET /submitted *)
Submitted(cookie, email) ==
    /\ running
    /\ Idle
    /\ \/ Reject("/submitted", cookie)
       \/ /\ verifyToken(cookie, secret, now).admitted
          /\ Answer("/submitted", cookie, email, 0, FALSE, FindPending(submitted), 0)
          /\ UNCHANGED <<now, secret, kept, issuedAt, jar, assignments, submitted>>

(* GET /myassignments *)
MyAssignments(cookie, email) ==
    /\ running
    /\ Idle
    /\ \/ Reject("/myassignments", cookie)
       \/ /\ verifyToken(cookie, secret, now).admitted
          /\ Answer("/myassignments", cookie, email, 0, FALSE,
                    FindBySubmitter(submitted, verifyToken(cookie, secret, now).user),
                    0)
          /\ UNCHANGED <<now, secret, kept, issuedAt, jar, assignments, submitted>>

(* PATCH /mark/:id *)
Mark(cookie, email, id, data) ==
    /\ running
    /\ Idle
    /\ \/ Reject("/mark/:id", cookie)
       \/ /\ verifyToken(cookie, secret, now).admitted
          /\ submitted' = IF ObjectIdThrows(id) THEN submitted
                          ELSE MarkSubmission(submitted, id, data)
          /\ Answer("/mark/:id", cookie, email, id, ObjectIdThrows(id), NoDocs,
                    IF id \in Ids(submitted) THEN 1 ELSE 0)
          /\ UNCHANGED <<now, secret, kept, issuedAt, jar, assignments>>

(* GET /featured *)
Featured == Public("/featured", Limit(assignments, 3))

MaxPage == 2
MaxSize == 2
DifficultyParams == Difficulties \cup {""}
AssignmentBodies == [difficulty : Difficulties]
SubmissionBodies == [submittedBy : Emails, status : Statuses]
MarkBodies == [status : Statuses]

(* The response is written out; the server takes the next request. *)
Finish ==
    /\ running
    /\ ~Idle
    /\ last' = NoRequest
    /\ UNCHANGED <<running, now, secret, kept, issuedAt, jar, assignments, submitted>>

Next ==
    \/ Tick
    \/ Finish
    \/ \E e \in Emails : Jwt(e)
    \/ Logout
    \/ Root
    \/ Assignments
    \/ \E p \in 0 .. MaxPage, s \in 0 .. MaxSize, d \in DifficultyParams :
            AssignmentsByDifficulty(p, s, d)
    \/ \E d \in DifficultyParams : AssignmentByDiff(d)
    \/ Featured
    \/ \E c \in Cookies, e \in Emails, b \in AssignmentBodies : Create(c, e, b)
    \/ \E c \in Cookies, e \in Emails, i \in IdParams : GetAssignment(c, e, i)
    \/ \E c \in Cookies, e \in Emails, i \in IdParams, b \in AssignmentBodies :
            Update(c, e, i, b)
    \/ \E c \in Cookies, e \in Emails, i \in IdParams : Delete(c, e, i)
    \/ \E c \in Cookies, e \in Emails, b \in SubmissionBodies : CreateSubmitted(c, e, b)
    \/ \E c \in Cookies, e \in Emails : Submitted(c, e)
    \/ \E c \in Cookies, e \in Emails : MyAssignments(c, e)
    \/ \E c \in Cookies, e \in Emails, i \in IdParams, b \in MarkBodies : Mark(c, e, i, b)

Spec == Init /\ [][Next]_vars

---------------------------------------------------------------------------
(* The paginated listing over collections of up to MaxPagingDocs documents *)

MaxPagingDocs == 5

PagingCollections ==
    UNION {{[i \in 1 .. n |-> [id |-> i, difficulty |-> f[i]]] : f \in [1 .. n -> Difficulties]} :
           n \in 0 .. MaxPagingDocs}

InitPaging ==
    /\ running = TRUE
    /\ now = 0
    /\ secret = EnvSecret
    /\ kept = NoToken
    /\ issuedAt = 0
    /\ jar = NoToken
    /\ assignments \in PagingCollections
    /\ submitted = <<>>
    /\ last = NoRequest

NextPaging ==
    \/ \E p \in 0 .. MaxPage, s \in 0 .. MaxSize, d \in DifficultyParams :
            AssignmentsByDifficulty(p, s, d)
    \/ Finish

SpecPaging == InitPaging /\ [][NextPaging]_vars

---------------------------------------------------------------------------
(* Properties *)

ProtectedRoutes ==
    {"/create", "/assignment/:id", "/update/:id", "/delete/:id",
     "/createSubmitted", "/submitted", "/myassignments", "/mark/:id"}

(* A step that handles a request. *)
Handles == last = NoRequest /\ last' # NoRequest

Range(seq) == {seq[i] : i \in 1 .. Len(seq)}

(* C1: a request to a protected route whose token email differs from the   *)
(* email query parameter is answered Forbidden (403) and leaves both       *)
(* collections as they were.                                               *)
C1_MismatchForbiddenNoMutation ==
    [][(Handles /\ last'.route \in ProtectedRoutes /\ last'.entered
            /\ last'.cookie.email # last'.email)
        => (last'.sends = <<403>> /\ assignments' = assignments /\ submitted' = submitted)]_vars

(* C2: a request to a protected route that carries no cookie is answered   *)
(* Unauthenticated (401), the route handler is not entered and both        *)
(* collections stay as they were.                                          *)
C2_NoCookieUnauthenticated ==
    [][(Handles /\ last'.route \in ProtectedRoutes /\ last'.cookie = NoToken)
        => (last'.sends = <<401>> /\ ~last'.entered
            /\ assignments' = assignments /\ submitted' = submitted)]_vars

(* C2 witness: a delete without a cookie was answered 401 and the document *)
(* is still stored.                                                        *)
C2_Witness ==
    /\ last.route = "/delete/:id"
    /\ last.cookie = NoToken
    /\ last.sends = <<401>>
    /\ Len(assignments) > 0

(* C3: a 401 or 403 answer never ends the server process. *)
C3_RejectionKeepsServerRunning ==
    (last.sends # <<>> /\ last.sends[1] \in {401, 403}) => running

(* C4: every request is answered exactly once: the handling calls res.send *)
(* once and one response goes out.                                         *)
C4_ExactlyOneResponse ==
    last # NoRequest => (last.calls = 1 /\ Len(last.sends) = 1)

(* C5 as claimed: the token POST /jwt issues for email e verifies with     *)
(* email e at every time less than one hour after the issuance, and is     *)
(* answered 401 at every time more than one hour after it.                 *)
C5_ValidForOneHourFromIssuance ==
    /\ last.route = "/jwt"
        => (jar = kept /\ kept.email = last.email
            /\ verifyToken(kept, secret, now).user = last.email)
    /\ (last.route \in ProtectedRoutes /\ last.cookie # NoToken /\ last.cookie = kept)
        => /\ now < issuedAt + 60 * 60 * 1000
                => (last.entered /\ last.user = last.cookie.email)
           /\ now > issuedAt + 60 * 60 * 1000
                => (~last.entered /\ last.sends = <<401>>)

(* C5 amended: the token verifies with email e at every time less than one *)
(* hour after its iat, the issuance time rounded down to the whole second, *)
(* and is answered 401 at every time from then on.                         *)
C5_TokenLifetime ==
    /\ last.route = "/jwt"
        => (jar = kept /\ kept.email = last.email
            /\ verifyToken(kept, secret, now).user = last.email)
    /\ (last.route \in ProtectedRoutes /\ last.cookie # NoToken /\ last.cookie = kept)
        => IF now < last.cookie.iat * 1000 + 60 * 60 * 1000
           THEN last.entered /\ last.user = last.cookie.email
           ELSE ~last.entered /\ last.sends = <<401>>

(* C5 witness: a token issued 999 ms into a second is answered 401 when    *)
(* 3600 s have passed since the start of that second.                      *)
C5_Witness ==
    /\ kept # NoToken
    /\ kept.iat = 0
    /\ issuedAt = 999
    /\ last.route \in ProtectedRoutes
    /\ last.cookie = kept
    /\ now >= 60 * 60 * 1000
    /\ last.sends = <<401>>

(* C6: a submission's status is pending or graded, and a graded submission *)
(* stays graded.                                                           *)
C6_StatusPendingToGradedOnly ==
    [][/\ \A i \in 1 .. Len(submitted') : submitted'[i].status \in {"pending", "graded"}
       /\ \A i \in 1 .. Len(submitted) :
            submitted[i].status = "graded" => submitted'[i].status = "graded"]_vars

(* C7: whatever requests came before, GET /logout among them, a token the  *)
(* server issued passes verifyToken as long as it has not expired.         *)
C7_OnlyExpiryInvalidates ==
    (kept # NoToken /\ now \div 1000 < kept.exp)
        => /\ verifyToken(kept, secret, now).admitted
           /\ (last.route \in ProtectedRoutes /\ last.cookie = kept) => last.entered

(* C7 witness: after a logout cleared the cookie, the token is presented   *)
(* again and the handler is entered.                                       *)
C7_Witness ==
    /\ jar = NoToken
    /\ kept # NoToken
    /\ last.route \in ProtectedRoutes
    /\ last.cookie = kept
    /\ last.entered

(* C8: a list GET /myassignments delivers holds exactly the stored         *)
(* submissions whose submittedBy is the email of the token.                *)
C8_MyAssignmentsOnlyOwn ==
    (last.route = "/myassignments" /\ last.sends = <<200>>)
        => /\ Range(last.docs)
                = {d \in Range(submitted) : d.submittedBy = last.cookie.email}
           /\ Len(last.docs) = Cardinality(Range(last.docs))

(* C8 witness: a list was delivered while a submission of another          *)
(* submitter is stored.                                                    *)
C8_Witness ==
    /\ last.route = "/myassignments"
    /\ last.sends = <<200>>
    /\ \E d \in Range(submitted) : d.submittedBy # last.cookie.email

(* The documents at the zero-based positions lo .. hi of a collection. *)
Window(coll, lo, hi) ==
    LET top == IF hi + 1 > Len(coll) THEN Len(coll) ELSE hi + 1
    IN  [k \in 1 .. (top - lo) |-> coll[lo + k]]

Filtered(coll, difficulty) ==
    IF difficulty = "" THEN coll ELSE SelectSeq(coll, LAMBDA doc : doc.difficulty = difficulty)

(* C9 as claimed: the listing returns the documents of the filtered        *)
(* collection at positions page*size .. page*size+size-1 and nothing else. *)
C9_PageWindow ==
    [][\A p \in 0 .. MaxPage, s \in 0 .. MaxSize, d \in DifficultyParams :
        AssignmentsByDifficulty(p, s, d)
            => last'.docs = Window(Filtered(assignments, d), p * s, p * s + s - 1)]_vars

(* C9 amended: for a size of at least 1 the listing returns the documents  *)
(* at positions page*size .. page*size+size-1 of the filtered collection;  *)
(* for a size of 0 it returns the whole filtered collection.               *)
C9_PageWindowPositiveSize ==
    [][\A p \in 0 .. MaxPage, s \in 0 .. MaxSize, d \in DifficultyParams :
        AssignmentsByDifficulty(p, s, d)
            => last'.docs = IF s = 0 THEN Filtered(assignments, d)
                            ELSE Window(Filtered(assignments, d), p * s, p * s + s - 1)]_vars

(* C9 witness: page 2 of size 2 over five documents is the fifth alone. *)
C9_Witness ==
    /\ last.route = "/assignmentsbydifficulty"
    /\ Len(assignments) = 5
    /\ last.docs = <<assignments[5]>>

(* A step that handles an authorized delete: verifyToken let the request   *)
(* through and the email of its token is the asserted one.                 *)
AuthorizedDelete ==
    /\ Handles
    /\ last'.route = "/delete/:id"
    /\ last'.entered
    /\ last'.cookie.email = last'.email

====
